---- MODULE Spec2Model ----
(***************************************************************************)
(* Verification model of the query plan / execution core.                  *)
(*                                                                         *)
(*   Part I   execution operators Merge and CreateFunction                 *)
(*            (specifications Spec and FairSpec)                           *)
(*   Part II  plan constructor NewIntersectScan                            *)
(*            (specifications SpecIS and FairSpecIS)                       *)
(*   Part III and later: sequential functions of the planner, of the       *)
(*            executor and of the aggregates, one specification each       *)
(*                                                                         *)
(* Each part has its own variables; a specification of one part leaves the *)
(* variables of the other parts at their initial values.                   *)
(***************************************************************************)
EXTENDS Integers, Sequences, FiniteSets, TLC

\* ---------------------------------------------------------------- bounds
\* number of input rows the input operator may produce
MaxRows == 2
\* capacity of every item channel (input channel and child input channels)
ChanCap == 1
\* number of RunOnce invocations on the operator instance
MaxCalls == 2

\* ------------------------------------------------------------- variables
VARIABLES
  op,             \* which operator instance is run: "Merge" or "CreateFunction"
  present,        \* Merge.update / delete / insert # nil
  isActive,       \* result of this.active()
  readonly,       \* context.Readonly()
  ncalls,         \* RunOnce invocations so far
  once,           \* base.once already taken
  bodyRuns,       \* executions of the once body
  pc,             \* position of the body
  ok,             \* the local ok of Merge.RunOnce
  cur,            \* the local item of Merge.RunOnce
  todo,           \* children processMatch still has to send cur to
  produced,       \* rows the input operator has sent so far
  inChan,         \* rows buffered in input.ItemChannel()
  inClosed,       \* input.ItemChannel() closed (EOF)
  inputStarted,   \* times input.RunOnce was launched
  chStarted,      \* times child.RunOnce was launched, per child
  chIn,           \* rows buffered in the child's input channel
  chClosed,       \* child's input channel closed
  chStopped,      \* child has been sent a stop
  chNotified,     \* child has notified Merge (sent on childChannel)
  childChannel,   \* notifications buffered in Merge.childChannel
  nWait,          \* the local n of Merge.RunOnce
  sent,           \* log of mergeSendItem sends: <<row, child>> in order
  errors,         \* context error sink
  stopPc,         \* position of the SendStop caller
  stopRecv,       \* Merge received a value from its stopChannel
  parentNotified, \* times this.notify() ran
  outClosed,      \* times the operator's item channel was closed
  addCalls,       \* times functions.AddFunction was called
  inputsPut,      \* times _MERGE_CHANNEL_POOL.Put(inputs) ran
  \* ---- Part II: NewIntersectScan
  stack,          \* call stack of NewIntersectScan invocations (top is last)
  callArgs,       \* scans handed to the outermost invocation, as supplied
  callLimit,      \* limit handed to the outermost invocation
  result,         \* node returned by the outermost invocation
  lastRet,        \* last return of any invocation: the node and its limit argument
  round,          \* constructions completed or under way
  \* ---- Part III: builder.VisitMerge, the cardinality estimates
  useCBO,         \* this.useCBO
  leftCard,       \* the local leftCard
  joinEst,        \* the cardinality the join estimate returned
  joinCard,       \* the local joinCard
  matchCard,      \* the local matchCard
  nonMatchCard,   \* the local nonMatchCard
  vmPc,           \* position in VisitMerge
  \* ---- Part IV: builder.VisitPrepare
  prepPc,         \* position in VisitPrepare
  prepStmt,       \* stmt.Statement()
  prepPlan,       \* the local plan
  prepCache,      \* the prepared cache
  prepCache0,     \* the prepared cache when VisitPrepare was called
  prepRet,        \* what VisitPrepare returned: the node and the error
  prepCalls,      \* calls of VisitPrepare so far
  \* ---- Part V: execution operator Collect
  values,         \* Collect.values, the elements up to len(values)
  capacity,       \* cap(Collect.values)
  arrived,        \* the items handed to processItem so far, in order
  colRet,         \* the values processItem has returned so far
  colPattern,     \* which items the input produces
  \* ---- Part VI: aggregate Stddev
  sdSeen,         \* what the operand evaluated to for the items so far
  cumulative,     \* the cumulative value of the group
  sdFinal,        \* what ComputeFinal returned
  sdPc,           \* position of the aggregation of the group
  \* ---- Part VII: Merge.accrueTimes
  acPc,           \* position in accrueTimes
  acCalls,        \* accrueTimes calls made: <<child of this, child of copy>>
  chTime,         \* times accrued so far in the children of this
  copyTime,       \* times of the children of the copy
  \* ---- Part VIII: builder.VisitMerge, the plan
  vpStmt,         \* the MERGE statement: its clauses
  vpPc,           \* position in VisitMerge
  vpChildren,     \* this.children
  vpSub,          \* this.subChildren
  vpActs,         \* the locals update, delete, insert
  vpRet           \* what VisitMerge returned: the plan and the error

execVars == <<op, present, isActive, readonly, ncalls, once, bodyRuns, pc, ok,
              cur, todo, produced, inChan, inClosed, inputStarted, chStarted,
              chIn, chClosed, chStopped, chNotified, childChannel, nWait,
              sent, errors, stopPc, stopRecv, parentNotified, outClosed,
              addCalls, inputsPut>>

isVars == <<stack, callArgs, callLimit, result, lastRet, round>>

vmVars == <<useCBO, leftCard, joinEst, joinCard, matchCard, nonMatchCard, vmPc>>

prepVars == <<prepPc, prepStmt, prepPlan, prepCache, prepCache0, prepRet,
              prepCalls>>

collectVars == <<values, capacity, arrived, colRet, colPattern>>

stddevVars == <<sdSeen, cumulative, sdFinal, sdPc>>

accrueVars == <<acPc, acCalls, chTime, copyTime>>

planVars == <<vpStmt, vpPc, vpChildren, vpSub, vpActs, vpRet>>

\* the variables of Part III and later
fnVars == <<vmVars, prepVars, collectVars, stddevVars, accrueVars, planVars>>

\* the variables of all parts but one
exceptVM == <<execVars, isVars, prepVars, collectVars, stddevVars, accrueVars,
               planVars>>

exceptPrep == <<execVars, isVars, vmVars, collectVars, stddevVars, accrueVars,
                 planVars>>

exceptCollect == <<execVars, isVars, vmVars, prepVars, stddevVars, accrueVars,
                    planVars>>

exceptStddev == <<execVars, isVars, vmVars, prepVars, collectVars, accrueVars,
                   planVars>>

exceptAccrue == <<execVars, isVars, vmVars, prepVars, collectVars, stddevVars,
                  planVars>>

exceptPlan == <<execVars, isVars, vmVars, prepVars, collectVars, stddevVars,
                accrueVars>>

vars == <<execVars, isVars, fnVars>>

Children == {"update", "delete", "insert"}

NoRow == [id |-> 0, key |-> "none", doc |-> FALSE, errs |-> "none"]

\* outcomes of evaluating the MERGE key of a row and of fetching it
RowOutcomes(i) ==
  {[id |-> i, key |-> k, doc |-> FALSE, errs |-> "none"] :
      k \in {"evalerr", "nonstring"}}
  \cup
  {[id |-> i, key |-> "string", doc |-> d, errs |-> e] :
      d \in BOOLEAN, e \in {"none", "nonfatal", "fatal"}}

\* ------------------------------------------------------- Part I: helpers
SeqOfPresent(names) == SelectSeq(names, LAMBDA c : present[c])

NumChildren == Cardinality({c \in Children : present[c]})

\* A receive from stopChannel is possible exactly when a sender is blocked in
\* its send: the stop channel is unbuffered and never closed.
StopReady == stopPc = "self"

\* ---------------------------------------------------- sync.Once of base
OnceFreeAlways == TRUE

OnceFree == ~once

\* --------------------------------------------------------- Merge.RunOnce
\* this.once.Do(func() {...}): the first invocation runs the body, every other
\* invocation (sequential or concurrent) does not.
MergeRunOnce ==
  /\ op = "Merge"
  /\ ncalls < MaxCalls
  /\ ncalls' = ncalls + 1
  /\ IF OnceFree
       THEN /\ once' = TRUE
            /\ bodyRuns' = bodyRuns + 1
            /\ pc' = "body"
       ELSE UNCHANGED <<once, bodyRuns, pc>>
  /\ UNCHANGED <<op, present, isActive, readonly, ok, cur, todo, produced,
                 inChan, inClosed, inputStarted, chStarted, chIn, chClosed,
                 chStopped, chNotified, childChannel, nWait, sent, errors,
                 stopPc, stopRecv, parentNotified, outClosed, addCalls,
                 inputsPut, isVars, fnVars>>

\* lines 63-106: the deferred calls are registered, then the active/readonly
\* test; otherwise the input and every present child are launched.
MergeStart ==
  /\ op = "Merge"
  /\ pc = "body"
  /\ IF ~isActive \/ readonly
       THEN /\ pc' = "deferNotify"
            /\ UNCHANGED <<inputStarted, chStarted, ok>>
       ELSE /\ inputStarted' = inputStarted + 1
            /\ chStarted' = [c \in Children |->
                               IF present[c] THEN chStarted[c] + 1 ELSE chStarted[c]]
            /\ ok' = TRUE
            /\ pc' = "poll"
  /\ UNCHANGED <<op, present, isActive, readonly, ncalls, once, bodyRuns, cur,
                 todo, produced, inChan, inClosed, chIn, chClosed, chStopped,
                 chNotified, childChannel, nWait, sent, errors, stopPc,
                 stopRecv, parentNotified, outClosed, addCalls,
                 inputsPut, isVars, fnVars>>

\* lines 108-115: loop test and the non-blocking poll of stopChannel
LoopPoll ==
  /\ op = "Merge"
  /\ pc = "poll"
  /\ IF ~ok
       THEN /\ pc' = "closeInputs"
            /\ UNCHANGED <<stopPc, stopRecv>>
       ELSE IF StopReady
         THEN /\ stopPc' = "children"
              /\ stopRecv' = TRUE
              /\ pc' = "closeInputs"
         ELSE /\ pc' = "select"
              /\ UNCHANGED <<stopPc, stopRecv>>
  /\ UNCHANGED <<op, present, isActive, readonly, ncalls, once, bodyRuns, ok,
                 cur, todo, produced, inChan, inClosed, inputStarted,
                 chStarted, chIn, chClosed, chStopped, chNotified,
                 childChannel, nWait, sent, errors, parentNotified, outClosed,
                 addCalls, inputsPut, isVars, fnVars>>

\* lines 117-123: an item is received from the input
LoopRecvItem ==
  /\ op = "Merge"
  /\ pc = "select"
  /\ inChan > 0
  /\ inChan' = inChan - 1
  /\ cur' = [NoRow EXCEPT !.id = produced - inChan + 1]
  /\ ok' = TRUE
  /\ pc' = "match"
  /\ UNCHANGED <<op, present, isActive, readonly, ncalls, once, bodyRuns, todo,
                 produced, inClosed, inputStarted, chStarted, chIn, chClosed,
                 chStopped, chNotified, childChannel, nWait, sent, errors,
                 stopPc, stopRecv, parentNotified, outClosed, addCalls,
                 inputsPut, isVars, fnVars>>

\* lines 117-120: the input channel is closed and drained: item = nil, ok = false
LoopRecvEOF ==
  /\ op = "Merge"
  /\ pc = "select"
  /\ inChan = 0
  /\ inClosed
  /\ cur' = NoRow
  /\ ok' = FALSE
  /\ pc' = "poll"
  /\ UNCHANGED <<op, present, isActive, readonly, ncalls, once, bodyRuns, todo,
                 produced, inChan, inClosed, inputStarted, chStarted, chIn,
                 chClosed, chStopped, chNotified, childChannel, nWait, sent,
                 errors, stopPc, stopRecv, parentNotified, outClosed, addCalls,
                 inputsPut, isVars, fnVars>>

\* lines 124-126: the blocking select receives a stop
LoopRecvStop ==
  /\ op = "Merge"
  /\ pc = "select"
  /\ StopReady
  /\ stopPc' = "children"
  /\ stopRecv' = TRUE
  /\ pc' = "closeInputs"
  /\ UNCHANGED <<op, present, isActive, readonly, ncalls, once, bodyRuns, ok,
                 cur, todo, produced, inChan, inClosed, inputStarted,
                 chStarted, chIn, chClosed, chStopped, chNotified,
                 childChannel, nWait, sent, errors, parentNotified, outClosed,
                 addCalls, inputsPut, isVars, fnVars>>

\* ---------------------------------------------------- Merge.processMatch
\* lines 172-184: the key evaluated without error and is a string
KeyIsString(row) == row.key = "string"

FetchOkAlways(row) == TRUE

\* lines 193-202: ok after the errors of the fetch have been looked at
FetchOk(row) == row.errs # "fatal"

\* errors handed to context.Error for the row (lines 174, 181, 194)
RowErrors(row) ==
  IF row.key = "evalerr" THEN {<<row.id, "evaluation">>}
  ELSE IF row.key = "nonstring" THEN {<<row.id, "invalid_value">>}
  ELSE IF row.errs = "none" THEN {}
  ELSE {<<row.id, row.errs>>}

RouteAll(row) == SeqOfPresent(<<"update", "delete", "insert">>)

\* lines 204-221: the children the row is to be sent to, in order
Route(row) ==
  IF row.doc
    THEN SeqOfPresent(<<"update", "delete">>)
    ELSE SeqOfPresent(<<"insert">>)

\* lines 170-221 up to the first mergeSendItem: evaluate the key, fetch, record
\* the errors, choose the branch. The outcome of Evaluate and of Fetch is the
\* environment's choice.
processMatch ==
  /\ op = "Merge"
  /\ pc = "match"
  /\ \E row \in RowOutcomes(cur.id) :
       /\ cur' = row
       /\ errors' = errors \cup RowErrors(row)
       /\ IF ~KeyIsString(row) \/ ~FetchOk(row)
            THEN /\ ok' = FALSE
                 /\ todo' = <<>>
                 /\ pc' = "poll"
            ELSE /\ ok' = TRUE
                 /\ todo' = Route(row)
                 /\ pc' = IF Route(row) = <<>> THEN "poll" ELSE "sendPoll"
  /\ UNCHANGED <<op, present, isActive, readonly, ncalls, once, bodyRuns,
                 produced, inChan, inClosed, inputStarted, chStarted, chIn,
                 chClosed, chStopped, chNotified, childChannel, nWait, sent,
                 stopPc, stopRecv, parentNotified, outClosed, addCalls,
                 inputsPut, isVars, fnVars>>

\* --------------------------------------------------- Merge.mergeSendItem
RestIgnoringOk(rest) == Tail(rest)

\* lines 209-215, 218-220: what is still to be sent once a mergeSendItem has
\* returned false ("ok && delete != nil")
RestAfterFailedSend(rest) == <<>>

\* lines 155-159: the non-blocking poll of stopChannel
SendPoll ==
  /\ op = "Merge"
  /\ pc = "sendPoll"
  /\ IF StopReady
       THEN /\ stopPc' = "children"
            /\ stopRecv' = TRUE
            /\ ok' = FALSE
            /\ todo' = RestAfterFailedSend(todo)
            /\ pc' = IF RestAfterFailedSend(todo) = <<>> THEN "poll" ELSE "sendPoll"
       ELSE /\ pc' = "sendSelect"
            /\ UNCHANGED <<stopPc, stopRecv, ok, todo>>
  /\ UNCHANGED <<op, present, isActive, readonly, ncalls, once, bodyRuns, cur,
                 produced, inChan, inClosed, inputStarted, chStarted, chIn,
                 chClosed, chStopped, chNotified, childChannel, nWait, sent,
                 errors, parentNotified, outClosed, addCalls,
                 inputsPut, isVars, fnVars>>

\* lines 161-164: the item goes into the child's input channel
SendItem ==
  /\ op = "Merge"
  /\ pc = "sendSelect"
  /\ LET c == Head(todo) IN
       /\ chIn[c] < ChanCap
       /\ chIn' = [chIn EXCEPT ![c] = @ + 1]
       /\ sent' = Append(sent, <<cur, c>>)
  /\ ok' = TRUE
  /\ todo' = Tail(todo)
  /\ pc' = IF Tail(todo) = <<>> THEN "poll" ELSE "sendPoll"
  /\ UNCHANGED <<op, present, isActive, readonly, ncalls, once, bodyRuns, cur,
                 produced, inChan, inClosed, inputStarted, chStarted, chClosed,
                 chStopped, chNotified, childChannel, nWait, errors, stopPc,
                 stopRecv, parentNotified, outClosed, addCalls,
                 inputsPut, isVars, fnVars>>

\* lines 165-166: the blocking select receives a stop instead
SendStopped ==
  /\ op = "Merge"
  /\ pc = "sendSelect"
  /\ StopReady
  /\ stopPc' = "children"
  /\ stopRecv' = TRUE
  /\ ok' = FALSE
  /\ todo' = RestAfterFailedSend(todo)
  /\ pc' = IF RestAfterFailedSend(todo) = <<>> THEN "poll" ELSE "sendPoll"
  /\ UNCHANGED <<op, present, isActive, readonly, ncalls, once, bodyRuns, cur,
                 produced, inChan, inClosed, inputStarted, chStarted, chIn,
                 chClosed, chStopped, chNotified, childChannel, nWait, sent,
                 errors, parentNotified, outClosed, addCalls,
                 inputsPut, isVars, fnVars>>

\* ------------------------------------------------ Merge.RunOnce teardown
AllThreeChildren == Cardinality(Children)

LenChildrenLessOne == IF NumChildren > 0 THEN NumChildren - 1 ELSE 0

\* line 136: n := len(this.children), the children that were started
LenChildren == NumChildren

NoInputs == {}

\* lines 86-99: inputs holds the input channel of every child that is not nil
Inputs == {c \in Children : present[c]}

\* lines 130-137: close every child input channel, n := len(this.children)
CloseInputs ==
  /\ op = "Merge"
  /\ pc = "closeInputs"
  /\ chClosed' = [c \in Children |-> c \in Inputs]
  /\ nWait' = LenChildren
  /\ pc' = "wait"
  /\ UNCHANGED <<op, present, isActive, readonly, ncalls, once, bodyRuns, ok,
                 cur, todo, produced, inChan, inClosed, inputStarted,
                 chStarted, chIn, chStopped, chNotified, childChannel, sent,
                 errors, stopPc, stopRecv, parentNotified, outClosed, addCalls,
                 inputsPut, isVars, fnVars>>

\* lines 138-143: one notification is taken from childChannel
WaitChild ==
  /\ op = "Merge"
  /\ pc = "wait"
  /\ nWait > 0
  /\ childChannel > 0
  /\ childChannel' = childChannel - 1
  /\ nWait' = nWait - 1
  /\ UNCHANGED <<op, present, isActive, readonly, ncalls, once, bodyRuns, pc,
                 ok, cur, todo, produced, inChan, inClosed, inputStarted,
                 chStarted, chIn, chClosed, chStopped, chNotified, sent,
                 errors, stopPc, stopRecv, parentNotified, outClosed, addCalls,
                 inputsPut, isVars, fnVars>>

FirstDeferredNotify == "deferNotify"

\* lines 63-84: the deferred call registered last, which runs first when the
\* body returns at line 144
FirstDeferred == "deferPut"

\* line 138 with n = 0, then line 144: the body returns and the deferred calls
\* start to run, last registered first
WaitDone ==
  /\ op = "Merge"
  /\ pc = "wait"
  /\ nWait = 0
  /\ pc' = FirstDeferred
  /\ UNCHANGED <<op, present, isActive, readonly, ncalls, once, bodyRuns, ok,
                 cur, todo, produced, inChan, inClosed, inputStarted,
                 chStarted, chIn, chClosed, chStopped, chNotified,
                 childChannel, nWait, sent, errors, stopPc, stopRecv,
                 parentNotified, outClosed, addCalls,
                 inputsPut, isVars, fnVars>>

\* line 84: defer _MERGE_CHANNEL_POOL.Put(inputs), the deferred call that was
\* registered last and so runs first
MergePut ==
  /\ op = "Merge"
  /\ pc = "deferPut"
  /\ inputsPut' = inputsPut + 1
  /\ pc' = "deferNotify"
  /\ UNCHANGED <<op, present, isActive, readonly, ncalls, once, bodyRuns, ok,
                 cur, todo, produced, inChan, inClosed, inputStarted,
                 chStarted, chIn, chClosed, chStopped, chNotified,
                 childChannel, nWait, sent, errors, stopPc, stopRecv,
                 parentNotified, outClosed, addCalls, isVars, fnVars>>

\* line 70: defer this.notify()
MergeNotify ==
  /\ op = "Merge"
  /\ pc = "deferNotify"
  /\ parentNotified' = parentNotified + 1
  /\ pc' = "deferClose"
  /\ UNCHANGED <<op, present, isActive, readonly, ncalls, once, bodyRuns, ok,
                 cur, todo, produced, inChan, inClosed, inputStarted,
                 chStarted, chIn, chClosed, chStopped, chNotified,
                 childChannel, nWait, sent, errors, stopPc, stopRecv,
                 outClosed, addCalls, inputsPut, isVars, fnVars>>

\* line 69: defer close(this.itemChannel)
MergeClose ==
  /\ op = "Merge"
  /\ pc = "deferClose"
  /\ outClosed' = outClosed + 1
  /\ pc' = "done"
  /\ UNCHANGED <<op, present, isActive, readonly, ncalls, once, bodyRuns, ok,
                 cur, todo, produced, inChan, inClosed, inputStarted,
                 chStarted, chIn, chClosed, chStopped, chNotified,
                 childChannel, nWait, sent, errors, stopPc, stopRecv,
                 parentNotified, addCalls, inputsPut, isVars, fnVars>>

\* -------------------------------------------------------- Merge.SendStop
\* line 272: baseSendStop() starts its send on the stop channel of the Merge.
\* The channel is unbuffered, so the send completes in the step in which the
\* Merge receives (LoopPoll, LoopRecvStop, SendPoll, SendStopped).
SendStop ==
  /\ op = "Merge"
  /\ stopPc = "idle"
  /\ stopPc' = "self"
  /\ UNCHANGED <<op, present, isActive, readonly, ncalls, once, bodyRuns, pc,
                 ok, cur, todo, produced, inChan, inClosed, inputStarted,
                 chStarted, chIn, chClosed, chStopped, chNotified,
                 childChannel, nWait, sent, errors, stopRecv, parentNotified,
                 outClosed, addCalls, inputsPut, isVars, fnVars>>

\* lines 273-281: SendStop of every child that is not nil
SendStopChildren ==
  /\ op = "Merge"
  /\ stopPc = "children"
  /\ chStopped' = [c \in Children |-> present[c]]
  /\ stopPc' = "done"
  /\ UNCHANGED <<op, present, isActive, readonly, ncalls, once, bodyRuns, pc,
                 ok, cur, todo, produced, inChan, inClosed, inputStarted,
                 chStarted, chIn, chClosed, chNotified, childChannel, nWait,
                 sent, errors, stopRecv, parentNotified, outClosed, addCalls,
                 inputsPut, isVars, fnVars>>

\* --------------------------------------- the operators around the Merge
\* lines 226-237 and 101-103: the tasks that have the item channel of the Merge
\* as their output (op.SetOutput(this.output)) and are running
OutputSenders == {c \in Children : chStarted[c] > 0 /\ ~chNotified[c]}

\* The input operator sends a row on its item channel.
InputSend ==
  /\ op = "Merge"
  /\ inputStarted > 0
  /\ ~inClosed
  /\ produced < MaxRows
  /\ inChan < ChanCap
  /\ produced' = produced + 1
  /\ inChan' = inChan + 1
  /\ UNCHANGED <<op, present, isActive, readonly, ncalls, once, bodyRuns, pc,
                 ok, cur, todo, inClosed, inputStarted, chStarted, chIn,
                 chClosed, chStopped, chNotified, childChannel, nWait, sent,
                 errors, stopPc, stopRecv, parentNotified, outClosed, addCalls,
                 inputsPut, isVars, fnVars>>

\* The input operator ends and closes its item channel.
InputClose ==
  /\ op = "Merge"
  /\ inputStarted > 0
  /\ ~inClosed
  /\ inClosed' = TRUE
  /\ UNCHANGED <<op, present, isActive, readonly, ncalls, once, bodyRuns, pc,
                 ok, cur, todo, produced, inChan, inputStarted, chStarted,
                 chIn, chClosed, chStopped, chNotified, childChannel, nWait,
                 sent, errors, stopPc, stopRecv, parentNotified, outClosed,
                 addCalls, inputsPut, isVars, fnVars>>

\* A started child takes a row from its input channel.
ChildRecv(c) ==
  /\ op = "Merge"
  /\ chStarted[c] > 0
  /\ ~chNotified[c]
  /\ chIn[c] > 0
  /\ chIn' = [chIn EXCEPT ![c] = @ - 1]
  /\ UNCHANGED <<op, present, isActive, readonly, ncalls, once, bodyRuns, pc,
                 ok, cur, todo, produced, inChan, inClosed, inputStarted,
                 chStarted, chClosed, chStopped, chNotified, childChannel,
                 nWait, sent, errors, stopPc, stopRecv, parentNotified,
                 outClosed, addCalls, inputsPut, isVars, fnVars>>

\* A started child ends, once it is stopped or has drained its closed input,
\* and notifies its parent, the Merge (wrapChild: op.SetParent(this)).
ChildNotify(c) ==
  /\ op = "Merge"
  /\ chStarted[c] > 0
  /\ ~chNotified[c]
  /\ chStopped[c] \/ (chClosed[c] /\ chIn[c] = 0)
  /\ chNotified' = [chNotified EXCEPT ![c] = TRUE]
  /\ childChannel' = childChannel + 1
  /\ UNCHANGED <<op, present, isActive, readonly, ncalls, once, bodyRuns, pc,
                 ok, cur, todo, produced, inChan, inClosed, inputStarted,
                 chStarted, chIn, chClosed, chStopped, nWait, sent, errors,
                 stopPc, stopRecv, parentNotified, outClosed, addCalls,
                 inputsPut, isVars, fnVars>>

\* ------------------------------------------------ CreateFunction.RunOnce
CFRunOnce ==
  /\ op = "CreateFunction"
  /\ ncalls < MaxCalls
  /\ ncalls' = ncalls + 1
  /\ IF OnceFree
       THEN /\ once' = TRUE
            /\ bodyRuns' = bodyRuns + 1
            /\ pc' = "body"
       ELSE UNCHANGED <<once, bodyRuns, pc>>
  /\ UNCHANGED <<op, present, isActive, readonly, ok, cur, todo, produced,
                 inChan, inClosed, inputStarted, chStarted, chIn, chClosed,
                 chStopped, chNotified, childChannel, nWait, sent, errors,
                 stopPc, stopRecv, parentNotified, outClosed, addCalls,
                 inputsPut, isVars, fnVars>>

\* lines 47-58: an inactive operator returns before close and notify are
\* deferred; a readonly context returns after they are.
CFStart ==
  /\ op = "CreateFunction"
  /\ pc = "body"
  /\ pc' = IF ~isActive THEN "done"
           ELSE IF readonly THEN "deferNotify"
           ELSE "add"
  /\ UNCHANGED <<op, present, isActive, readonly, ncalls, once, bodyRuns, ok,
                 cur, todo, produced, inChan, inClosed, inputStarted,
                 chStarted, chIn, chClosed, chStopped, chNotified,
                 childChannel, nWait, sent, errors, stopPc, stopRecv,
                 parentNotified, outClosed, addCalls,
                 inputsPut, isVars, fnVars>>

\* lines 61-66: functions.AddFunction, its error goes to the context
CFAdd ==
  /\ op = "CreateFunction"
  /\ pc = "add"
  /\ addCalls' = addCalls + 1
  /\ \E err \in BOOLEAN :
       errors' = IF err THEN errors \cup {<<0, "add_function">>} ELSE errors
  /\ pc' = "deferNotify"
  /\ UNCHANGED <<op, present, isActive, readonly, ncalls, once, bodyRuns, ok,
                 cur, todo, produced, inChan, inClosed, inputStarted,
                 chStarted, chIn, chClosed, chStopped, chNotified,
                 childChannel, nWait, sent, stopPc, stopRecv, parentNotified,
                 outClosed, inputsPut, isVars, fnVars>>

\* line 54: defer this.notify()
CFNotify ==
  /\ op = "CreateFunction"
  /\ pc = "deferNotify"
  /\ parentNotified' = parentNotified + 1
  /\ pc' = "deferClose"
  /\ UNCHANGED <<op, present, isActive, readonly, ncalls, once, bodyRuns, ok,
                 cur, todo, produced, inChan, inClosed, inputStarted,
                 chStarted, chIn, chClosed, chStopped, chNotified,
                 childChannel, nWait, sent, errors, stopPc, stopRecv,
                 outClosed, addCalls, inputsPut, isVars, fnVars>>

\* line 51: defer this.close(context), which closes the output
CFClose ==
  /\ op = "CreateFunction"
  /\ pc = "deferClose"
  /\ outClosed' = outClosed + 1
  /\ pc' = "done"
  /\ UNCHANGED <<op, present, isActive, readonly, ncalls, once, bodyRuns, ok,
                 cur, todo, produced, inChan, inClosed, inputStarted,
                 chStarted, chIn, chClosed, chStopped, chNotified,
                 childChannel, nWait, sent, errors, stopPc, stopRecv,
                 parentNotified, addCalls, inputsPut, isVars, fnVars>>

\* ------------------------------------------------- Part I: specification
\* NewMerge (lines 31-43) / NewCreateFunction (lines 25-33): any combination of
\* children, an operator that is active or not, a context readonly or not.
ExecInit ==
  /\ op \in {"Merge", "CreateFunction"}
  /\ present \in [Children -> BOOLEAN]
  /\ (op = "CreateFunction" => present = [c \in Children |-> FALSE])
  /\ isActive \in BOOLEAN
  /\ readonly \in BOOLEAN
  /\ ncalls = 0
  /\ once = FALSE
  /\ bodyRuns = 0
  /\ pc = "idle"
  /\ ok = TRUE
  /\ cur = NoRow
  /\ todo = <<>>
  /\ produced = 0
  /\ inChan = 0
  /\ inClosed = FALSE
  /\ inputStarted = 0
  /\ chStarted = [c \in Children |-> 0]
  /\ chIn = [c \in Children |-> 0]
  /\ chClosed = [c \in Children |-> FALSE]
  /\ chStopped = [c \in Children |-> FALSE]
  /\ chNotified = [c \in Children |-> FALSE]
  /\ childChannel = 0
  /\ nWait = 0
  /\ sent = <<>>
  /\ errors = {}
  /\ stopPc = "idle"
  /\ stopRecv = FALSE
  /\ parentNotified = 0
  /\ outClosed = 0
  /\ addCalls = 0
  /\ inputsPut = 0

\* the value 1.0 in the fixed-point unit of the estimates (halves)
One == 2

\* the sentinel of a cardinality that is not available
OPT_CARD_NOT_AVAIL == 0 - One

\* the sentinel of a cost that is not available
OPT_COST_NOT_AVAIL == 0 - One

ISIdle ==
  /\ stack = <<>>
  /\ callArgs = <<>>
  /\ callLimit = "nil"
  /\ result = [kind |-> "none", id |-> 0, limit |-> "nil", offset |-> "nil",
               scans |-> <<>>]
  /\ lastRet = [node |-> result, limit |-> "nil", cost |-> OPT_COST_NOT_AVAIL]
  /\ round = 0

VMIdle ==
  /\ useCBO = FALSE
  /\ leftCard = OPT_CARD_NOT_AVAIL
  /\ joinEst = OPT_CARD_NOT_AVAIL
  /\ joinCard = OPT_CARD_NOT_AVAIL
  /\ matchCard = OPT_CARD_NOT_AVAIL
  /\ nonMatchCard = OPT_CARD_NOT_AVAIL
  /\ vmPc = "idle"

\* no plan, no Prepare node (Go's nil)
NoPlan == [stmt |-> "none", variant |-> 0]

NoPrepare == [kind |-> "none", prepared |-> <<>>]

PrepIdle ==
  /\ prepPc = "idle"
  /\ prepStmt = "none"
  /\ prepPlan = NoPlan
  /\ prepCache = {}
  /\ prepCache0 = {}
  /\ prepRet = [node |-> NoPrepare, err |-> "none"]
  /\ prepCalls = 0

ColIdle ==
  /\ values = <<>>
  /\ capacity = 0
  /\ arrived = <<>>
  /\ colRet = {}
  /\ colPattern = "none"

\* value.NULL_VALUE
NULL_VALUE == [type |-> "null", num |-> 0, list |-> <<>>]

SdIdle ==
  /\ sdSeen = <<>>
  /\ cumulative = NULL_VALUE
  /\ sdFinal = NULL_VALUE
  /\ sdPc = "idle"

AcIdle ==
  /\ acPc = "idle"
  /\ acCalls = <<>>
  /\ chTime = [c \in Children |-> 0]
  /\ copyTime = [c \in Children |-> 0]

\* no operator (Go's nil)
NilOp == [op |-> "nil", key |-> "nil", kids |-> <<>>]

\* no statement
NoStmt ==
  [isOnKey |-> FALSE, update |-> FALSE, updWhere |-> FALSE, set |-> FALSE,
   unset |-> FALSE, delete |-> FALSE, delWhere |-> FALSE, insert |-> FALSE,
   insWhere |-> FALSE, returning |-> FALSE, limit |-> FALSE]

VPIdle ==
  /\ vpStmt = NoStmt
  /\ vpPc = "idle"
  /\ vpChildren = <<>>
  /\ vpSub = <<>>
  /\ vpActs = [c \in Children |-> NilOp]
  /\ vpRet = [plan |-> NilOp, err |-> "none"]

\* Part III and later are not running
FnIdle == VMIdle /\ PrepIdle /\ ColIdle /\ SdIdle /\ AcIdle /\ VPIdle

\* Part III and later are not running, but for one
IdleButVM == PrepIdle /\ ColIdle /\ SdIdle /\ AcIdle /\ VPIdle

IdleButPrep == VMIdle /\ ColIdle /\ SdIdle /\ AcIdle /\ VPIdle

IdleButCollect == VMIdle /\ PrepIdle /\ SdIdle /\ AcIdle /\ VPIdle

IdleButStddev == VMIdle /\ PrepIdle /\ ColIdle /\ AcIdle /\ VPIdle

IdleButAccrue == VMIdle /\ PrepIdle /\ ColIdle /\ SdIdle /\ VPIdle

IdleButPlan == VMIdle /\ PrepIdle /\ ColIdle /\ SdIdle /\ AcIdle

Init == ExecInit /\ ISIdle /\ FnIdle

MergeBody ==
  \/ MergeStart \/ LoopPoll \/ LoopRecvItem \/ LoopRecvEOF \/ LoopRecvStop
  \/ processMatch \/ SendPoll \/ SendItem \/ SendStopped
  \/ CloseInputs \/ WaitChild \/ WaitDone \/ MergePut \/ MergeNotify
  \/ MergeClose

Next ==
  \/ MergeRunOnce
  \/ MergeStart
  \/ LoopPoll
  \/ LoopRecvItem
  \/ LoopRecvEOF
  \/ LoopRecvStop
  \/ processMatch
  \/ SendPoll
  \/ SendItem
  \/ SendStopped
  \/ CloseInputs
  \/ WaitChild
  \/ WaitDone
  \/ MergePut
  \/ MergeNotify
  \/ MergeClose
  \/ SendStop
  \/ SendStopChildren
  \/ InputSend
  \/ InputClose
  \/ \E c \in Children : ChildRecv(c)
  \/ \E c \in Children : ChildNotify(c)
  \/ CFRunOnce
  \/ CFStart
  \/ CFAdd
  \/ CFNotify
  \/ CFClose

Spec == Init /\ [][Next]_vars

\* Steps of the goroutines of the Merge, of its children and of the SendStop
\* caller once its send has been received.
Progress ==
  \/ MergeBody
  \/ SendStopChildren
  \/ \E c \in Children : ChildRecv(c) \/ ChildNotify(c)

\* Scheduling: a goroutine that can take a step is eventually scheduled. The
\* weaker assumption used here is that the goroutines are not all starved.
FairSpec == Init /\ [][Next]_vars /\ WF_vars(Progress)

\* ================================================ Part II: NewIntersectScan
\* A scan is a record; a leaf is any SecondaryScan that is not an IntersectScan.
\* limit and offset are "nil" or "expr".

\* line 42: the largest arity NewIntersectScan leaves unsplit
ArityCap == 64
\* leaves handed to one construction
MaxLeaves == 70
\* constructions in a row, each one free to use the node the last one returned
MaxRounds == 2

\* no node (Go's nil)
NoNode ==
  [kind |-> "none", id |-> 0, limit |-> "nil", offset |-> "nil", scans |-> <<>>]

Leaf(i, lim, off) ==
  [kind |-> "leaf", id |-> i, limit |-> lim, offset |-> off, scans |-> <<>>]

\* lines 50-53: rv := &IntersectScan{scans: scans, limit: limit}
IntersectScan(scans, limit) ==
  [kind |-> "intersect", id |-> 0, limit |-> limit, offset |-> "nil",
   scans |-> scans]

\* limit and offset of fresh leaf i under pattern p
PatLimit(p, i) ==
  IF p = "all" \/ (p = "odd" /\ i % 2 = 1) THEN "expr" ELSE "nil"

PatOffset(p, i) ==
  IF p = "all" \/ (p = "odd" /\ i % 3 = 1) THEN "expr" ELSE "nil"

Patterns == {"none", "odd", "all"}

FreshLeaves(from, n, p) ==
  [i \in 1..n |-> Leaf(from + i, PatLimit(p, from + i), PatOffset(p, from + i))]

\* lines 99-105: Limit / SetLimit (a leaf keeps its limit in the same way)
SetLimit(scan, limit) == [scan EXCEPT !.limit = limit]

\* lines 107-112: an IntersectScan has no offset and SetOffset does nothing
SetOffset(scan, offset) ==
  IF scan.kind = "intersect" THEN scan ELSE [scan EXCEPT !.offset = offset]

KeepScans(scans) == scans

\* lines 31-36: clear limit and offset of every scan handed in
ScrubScans(scans) ==
  [i \in DOMAIN scans |->
     SetOffset(IF scans[i].limit # "nil" THEN SetLimit(scans[i], "nil")
               ELSE scans[i], "nil")]

flattenShallow(scans, buf) == buf \o scans

RECURSIVE FlattenRange(_, _, _)
\* lines 215-222: what the loop appends for scans[lo..hi]: a leaf itself, for an
\* IntersectScan what the recursive call on its scans appends. The loop over
\* lo..hi is unfolded as the loop over lo..mid followed by mid+1..hi.
FlattenRange(scans, lo, hi) ==
  IF lo > hi THEN <<>>
  ELSE IF lo = hi
    THEN IF scans[lo].kind = "intersect"
           THEN FlattenRange(scans[lo].scans, 1, Len(scans[lo].scans))
           ELSE <<scans[lo]>>
    ELSE LET mid == (lo + hi) \div 2
         IN FlattenRange(scans, lo, mid) \o FlattenRange(scans, mid + 1, hi)

\* lines 214-225: append the leaves of scans to buf
flattenIntersectScans(scans, buf) == buf \o FlattenRange(scans, 1, Len(scans))

\* the cost estimates the planner hands in: none, or one of 2.0
CostValues == {OPT_COST_NOT_AVAIL, 2 * One}

\* lines 45-46: cost/2.0, exact on the values used here
HalfCost(cost) == cost \div 2

\* line 29: a new invocation, about to run on the scans it is handed
Frame(limit, cost, scans) ==
  [limit |-> limit, cost |-> cost, scans |-> scans, pc |-> "scrub",
   left |-> NoNode]

Top == stack[Len(stack)]

\* The planner calls NewIntersectScan: first on fresh leaves, later also on the
\* node an earlier call returned, alone or between fresh leaves.
ISCall ==
  /\ stack = <<>>
  /\ round < MaxRounds
  /\ \E limit \in {"nil", "expr"}, cost \in CostValues, p \in Patterns :
       /\ callLimit' = limit
       /\ \/ /\ round = 0
             /\ \E n \in 0..MaxLeaves : callArgs' = FreshLeaves(0, n, p)
          \/ /\ round > 0
             /\ result # NoNode
             /\ LET base == 1000 * round
                    a == FreshLeaves(base, 1, p)
                    d == FreshLeaves(base + 1, 1, p)
                    r == result
                IN \E args \in {<<r>>, a \o <<r>>, a \o <<r>> \o d} :
                     callArgs' = args
       /\ stack' = <<Frame(limit, cost, callArgs')>>
  /\ result' = NoNode
  /\ round' = round + 1
  /\ UNCHANGED <<lastRet, execVars, fnVars>>

\* lines 31-36: the loop that clears limit and offset of the scans handed in
ISScrub ==
  /\ stack # <<>>
  /\ Top.pc = "scrub"
  /\ stack' = [stack EXCEPT ![Len(stack)] =
                 [Top EXCEPT !.scans = ScrubScans(Top.scans), !.pc = "flatten"]]
  /\ UNCHANGED <<callArgs, callLimit, result, lastRet, round, execVars, fnVars>>

\* lines 38-41: scans = flattenIntersectScans(scans, buf)
ISFlatten ==
  /\ stack # <<>>
  /\ Top.pc = "flatten"
  /\ stack' = [stack EXCEPT ![Len(stack)] =
                 [Top EXCEPT !.scans = flattenIntersectScans(Top.scans, <<>>),
                             !.pc = "body"]]
  /\ UNCHANGED <<callArgs, callLimit, result, lastRet, round, execVars, fnVars>>

\* lines 42-47: more than 64 scans: the first inner call, on scans[0:n/2]
ISSplit ==
  /\ stack # <<>>
  /\ Top.pc = "body"
  /\ Len(Top.scans) > ArityCap
  /\ LET scans == Top.scans
         n == Len(scans)
     IN stack' = [stack EXCEPT ![Len(stack)] = [Top EXCEPT !.pc = "left"]]
                 \o <<Frame("nil", HalfCost(Top.cost),
                            SubSeq(scans, 1, n \div 2))>>
  /\ UNCHANGED <<callArgs, callLimit, result, lastRet, round, execVars, fnVars>>

\* lines 50-55: at most 64 scans: the node is returned with the estimates it
\* was handed (setOptEstimate). The caller is the
\* planner, or an invocation at line 45, which goes on to the second inner call
\* (line 46, on scans[n/2:]), or an invocation at line 46, which then calls
\* NewIntersectScan(limit, ..., left, right) and returns whatever that returns
\* (line 43).
ISReturn ==
  /\ stack # <<>>
  /\ Top.pc = "body"
  /\ Len(Top.scans) <= ArityCap
  /\ LET rv == IntersectScan(Top.scans, Top.limit)
         rest == SubSeq(stack, 1, Len(stack) - 1)
     IN /\ lastRet' = [node |-> rv, limit |-> Top.limit, cost |-> Top.cost]
        /\ IF rest = <<>>
             THEN /\ stack' = <<>>
                  /\ result' = rv
             ELSE LET caller == rest[Len(rest)]
                      m == Len(caller.scans)
                  IN /\ result' = result
                     /\ stack' =
                          IF caller.pc = "left"
                            THEN [rest EXCEPT ![Len(rest)] =
                                    [caller EXCEPT !.left = rv, !.pc = "right"]]
                                 \o <<Frame("nil", HalfCost(caller.cost),
                                        SubSeq(caller.scans, m \div 2 + 1, m))>>
                            ELSE [rest EXCEPT ![Len(rest)] =
                                    Frame(caller.limit, caller.cost,
                                          <<caller.left, rv>>)]
  /\ UNCHANGED <<callArgs, callLimit, round, execVars, fnVars>>

ISStep == ISScrub \/ ISFlatten \/ ISSplit \/ ISReturn

InitIS == ExecInit /\ op = "Merge" /\ isActive /\ ~readonly
            /\ present = [c \in Children |-> TRUE] /\ ISIdle /\ FnIdle

NextIS ==
  \/ ISCall
  \/ ISScrub
  \/ ISFlatten
  \/ ISSplit
  \/ ISReturn

SpecIS == InitIS /\ [][NextIS]_vars

\* NewIntersectScan is sequential code: it runs on until it returns.
FairSpecIS == InitIS /\ [][NextIS]_vars /\ WF_vars(ISStep)

\* ===================================== Part III: VisitMerge, cardinalities
\* largest cardinality an operator reports, in the fixed-point unit
MaxCard == 6

\* what Cardinality() of an operator may return: the sentinel or an estimate
CardValues == {OPT_CARD_NOT_AVAIL} \cup (0..MaxCard)

\* the other parts are not running
PartIIIOnly == ExecInit /\ op = "Merge" /\ isActive /\ ~readonly
                 /\ present = [c \in Children |-> TRUE] /\ ISIdle

\* lines 172-179: the locals start at the sentinel
InitVM ==
  /\ PartIIIOnly
  /\ IdleButVM
  /\ useCBO \in BOOLEAN
  /\ leftCard = OPT_CARD_NOT_AVAIL
  /\ joinEst = OPT_CARD_NOT_AVAIL
  /\ joinCard = OPT_CARD_NOT_AVAIL
  /\ matchCard = OPT_CARD_NOT_AVAIL
  /\ nonMatchCard = OPT_CARD_NOT_AVAIL
  /\ vmPc = "left"

\* lines 181-183: leftCard = this.lastOp.Cardinality() when useCBO is on and
\* there is a last operator
VMLeftCard ==
  /\ vmPc = "left"
  /\ \E lastOpNil \in BOOLEAN, card \in CardValues :
       leftCard' = IF useCBO /\ ~lastOpNil THEN card ELSE leftCard
  /\ vmPc' = "join"
  /\ UNCHANGED <<useCBO, joinEst, joinCard, matchCard, nonMatchCard, exceptVM>>

\* lines 187-220: joinCard comes from getLookupJoinCost (ON KEY, when the
\* keyspace uses CBO) or from the join operator that buildAnsiJoin returned
VMJoinCard ==
  /\ vmPc = "join"
  /\ \E isOnKey \in BOOLEAN, keyspaceUseCBO \in BOOLEAN, card \in CardValues :
       joinCard' = IF useCBO /\ (isOnKey => keyspaceUseCBO) THEN card
                   ELSE joinCard
  /\ joinEst' = joinCard'
  /\ vmPc' = "clamp"
  /\ UNCHANGED <<useCBO, leftCard, matchCard, nonMatchCard, exceptVM>>

ClampOff(cbo, left, join) == join

\* lines 224-226: joinCard after the clamp
Clamp(cbo, left, join) ==
  IF cbo /\ left > 0 /\ join > 0 /\ join > left THEN left ELSE join

VMClamp ==
  /\ vmPc = "clamp"
  /\ joinCard' = Clamp(useCBO, leftCard, joinCard)
  /\ vmPc' = "derive"
  /\ UNCHANGED <<useCBO, leftCard, joinEst, matchCard, nonMatchCard, exceptVM>>

\* lines 228-241: matchCard and nonMatchCard
VMDerive ==
  /\ vmPc = "derive"
  /\ IF useCBO /\ leftCard > 0 /\ joinCard > 0
       THEN IF leftCard - joinCard < One
              THEN /\ nonMatchCard' = One
                   /\ matchCard' = leftCard - One
              ELSE /\ nonMatchCard' = leftCard - joinCard
                   /\ matchCard' = joinCard
       ELSE UNCHANGED <<matchCard, nonMatchCard>>
  /\ vmPc' = "done"
  /\ UNCHANGED <<useCBO, leftCard, joinEst, joinCard, exceptVM>>

NextVM ==
  \/ VMLeftCard
  \/ VMJoinCard
  \/ VMClamp
  \/ VMDerive

SpecVM == InitVM /\ [][NextVM]_vars

\* ============================================== Part IV: VisitPrepare
\* calls of VisitPrepare
MaxPrepares == 2

Statements == {"s1", "s2", "s3"}

\* the plans BuildPrepared may build for a statement
PlansOf(stmt) == {[stmt |-> stmt, variant |-> v] : v \in 1..2}

\* plan.MarshalJSON(): the JSON text of a plan
MarshalJSON(plan) == <<"{", "#operator", plan.stmt, "variant", plan.variant, "}">>

\* value.NewValue(json_bytes)
NewValue(bytes) == [kind |-> "value", actual |-> bytes]

\* NewPrepare(value)
NewPrepare(val) == [kind |-> "Prepare", prepared |-> val]

\* PreparedCache().AddPrepared(plan)
AddPrepared(cache, plan) == cache \cup {plan}

InitPrepare == PartIIIOnly /\ IdleButPrep /\ PrepIdle

\* the planner reaches a PREPARE statement
PrepCall ==
  /\ prepPc \in {"idle", "returned"}
  /\ prepCalls < MaxPrepares
  /\ prepCalls' = prepCalls + 1
  /\ \E stmt \in Statements : prepStmt' = stmt
  /\ prepPlan' = NoPlan
  /\ prepCache0' = prepCache
  /\ prepRet' = [node |-> NoPrepare, err |-> "none"]
  /\ prepPc' = "build"
  /\ UNCHANGED <<prepCache, exceptPrep>>

AfterBuildIgnoringErr(failed) == "add"

\* lines 19-21: an error of BuildPrepared is returned at once
AfterBuild(failed) == IF failed THEN "returned" ELSE "add"

\* lines 18-21: plan, err := BuildPrepared(stmt.Statement(), ...)
PrepBuild ==
  /\ prepPc = "build"
  /\ \E failed \in BOOLEAN :
       /\ IF failed
            THEN prepPlan' = NoPlan
            ELSE \E plan \in PlansOf(prepStmt) : prepPlan' = plan
       /\ prepRet' = [node |-> NoPrepare,
                      err |-> IF failed THEN "build" ELSE "none"]
       /\ prepPc' = AfterBuild(failed)
  /\ UNCHANGED <<prepStmt, prepCache, prepCache0, prepCalls, exceptPrep>>

\* line 23: PreparedCache().AddPrepared(plan)
PrepAdd ==
  /\ prepPc = "add"
  /\ prepCache' = AddPrepared(prepCache, prepPlan)
  /\ prepPc' = "marshal"
  /\ UNCHANGED <<prepStmt, prepPlan, prepCache0, prepRet, prepCalls, exceptPrep>>

\* lines 25-32: json_bytes, err := plan.MarshalJSON(); the error is returned, or
\* the Prepare node around the value made of the bytes
PrepMarshal ==
  /\ prepPc = "marshal"
  /\ \E failed \in BOOLEAN :
       prepRet' = IF failed
                    THEN [node |-> NoPrepare, err |-> "marshal"]
                    ELSE [node |-> NewPrepare(NewValue(MarshalJSON(prepPlan))),
                          err |-> "none"]
  /\ prepPc' = "returned"
  /\ UNCHANGED <<prepStmt, prepPlan, prepCache, prepCache0, prepCalls,
                 exceptPrep>>

NextPrepare ==
  \/ PrepCall
  \/ PrepBuild
  \/ PrepAdd
  \/ PrepMarshal

SpecPrepare == InitPrepare /\ [][NextPrepare]_vars

\* =================================================== Part V: Collect
\* items the input of the Collect produces
MaxItems == 130

\* line 22: const _COLLECT_CAP = 64
COLLECT_CAP == 64

ItemPatterns == {"distinct", "alternating", "same"}

\* the k-th item of the input: an annotated value
Item(p, k) ==
  [actual |-> IF p = "distinct" THEN k ELSE IF p = "alternating" THEN k % 2
              ELSE 7,
   attachments |-> <<"meta", k>>]

\* item.Actual()
Actual(item) == item.actual

MakeEmpty(len) == <<>>

\* line 51: make([]interface{}, len(this.values), ...): len zero values
Make(len) == [i \in 1..len |-> "nil"]

\* line 51: the capacity of the new buffer, len(this.values)<<1
NewCap(len) == len * 2

\* line 52: copy(values, this.values), which copies min(len(dst), len(src))
\* elements
Copy(dst, src) ==
  [i \in 1..Len(dst) |-> IF i <= Len(src) THEN src[i] ELSE dst[i]]

\* lines 24-32: NewCollect
InitCollect ==
  /\ PartIIIOnly
  /\ IdleButCollect
  /\ values = <<>>
  /\ capacity = COLLECT_CAP
  /\ arrived = <<>>
  /\ colRet = {}
  /\ colPattern \in ItemPatterns

\* lines 49-58: processItem on the next item of the input
ColProcessItem ==
  /\ Len(arrived) < MaxItems
  /\ LET item == Item(colPattern, Len(arrived) + 1)
         full == Len(values) = capacity
         buf == IF full THEN Copy(Make(Len(values)), values) ELSE values
     IN /\ arrived' = Append(arrived, item)
        /\ capacity' = IF full THEN NewCap(Len(values)) ELSE capacity
        /\ values' = Append(buf, Actual(item))
  /\ colRet' = colRet \cup {TRUE}
  /\ UNCHANGED <<colPattern, exceptCollect>>

NextCollect == ColProcessItem

SpecCollect == InitCollect /\ [][NextCollect]_vars

\* =================================================== Part VI: Stddev
\* items of one group
MaxInputs == 3

\* digits after the point in the numbers the aggregate returns
Scale == 1000

NumberValue(n) == [type |-> "number", num |-> n, list |-> <<>>]

StringValue == [type |-> "string", num |-> 0, list |-> <<>>]

MissingValue == [type |-> "missing", num |-> 0, list |-> <<>>]

\* the operand of the aggregate failed to evaluate
EvalError == [type |-> "error", num |-> 0, list |-> <<>>]

\* what this.Operand().Evaluate(item, context) returns for an item
OperandValues ==
  {NumberValue(2), NumberValue(4), StringValue, MissingValue, NULL_VALUE,
   EvalError}

\* addStddevVariance(item, cumulative, false): the number joins the numbers the
\* cumulative value keeps; a cumulative value of another kind is an error
addStddevVariance(item, cum) ==
  IF cum = NULL_VALUE
    THEN [type |-> "stats", num |-> 0, list |-> <<item.num>>]
  ELSE IF cum.type = "stats"
    THEN [cum EXCEPT !.list = Append(@, item.num)]
  ELSE EvalError

CumulateItem(item, cum) ==
  IF item.type # "number" THEN item ELSE addStddevVariance(item, cum)

\* lines 96-100: a value that is not a NUMBER leaves the cumulative value as it
\* is
CumulateInitial(item, cum) ==
  IF item.type # "number" THEN cum ELSE addStddevVariance(item, cum)

RECURSIVE Sum(_)
Sum(list) == IF list = <<>> THEN 0 ELSE Head(list) + Sum(Tail(list))

Squares(list) == [i \in DOMAIN list |-> list[i] * list[i]]

\* math.Sqrt on fixed-point numbers: the root of x / Scale^2, in 1 / Scale
Sqrt(x) == CHOOSE r \in 0..(4 * Scale) : r * r <= x /\ x < (r + 1) * (r + 1)

\* computeVariance(cumulative, false, 1.0): zero for a single number, else the
\* sample variance, here times Scale^2
computeVariance(cum) ==
  LET n == Len(cum.list)
  IN IF n = 1 THEN 0
     ELSE ((n * Sum(Squares(cum.list)) - Sum(cum.list) * Sum(cum.list))
             * Scale * Scale) \div (n * (n - 1))

\* lines 79-81: Default() is the cumulative value of a group without input
InitStddev ==
  /\ PartIIIOnly
  /\ IdleButStddev
  /\ sdSeen = <<>>
  /\ cumulative = NULL_VALUE
  /\ sdFinal = NULL_VALUE
  /\ sdPc = "cumulate"

\* lines 90-101: CumulateInitial on the next item of the group
SdCumulate ==
  /\ sdPc = "cumulate"
  /\ Len(sdSeen) < MaxInputs
  /\ \E item \in OperandValues :
       /\ sdSeen' = Append(sdSeen, item)
       /\ IF item = EvalError \/ CumulateInitial(item, cumulative) = EvalError
            THEN /\ sdPc' = "error"
                 /\ UNCHANGED cumulative
            ELSE /\ cumulative' = CumulateInitial(item, cumulative)
                 /\ UNCHANGED sdPc
  /\ UNCHANGED <<sdFinal, exceptStddev>>

\* lines 117-127: ComputeFinal
SdComputeFinal ==
  /\ sdPc = "cumulate"
  /\ IF cumulative = NULL_VALUE
       THEN /\ sdFinal' = cumulative
            /\ sdPc' = "final"
       ELSE IF cumulative.type # "stats"
         THEN /\ sdPc' = "error"
              /\ UNCHANGED sdFinal
         ELSE /\ sdFinal' = NumberValue(Sqrt(computeVariance(cumulative)))
              /\ sdPc' = "final"
  /\ UNCHANGED <<sdSeen, cumulative, exceptStddev>>

NextStddev ==
  \/ SdCumulate
  \/ SdComputeFinal

SpecStddev == InitStddev /\ [][NextStddev]_vars

\* ======================================== Part VII: Merge.accrueTimes
\* largest time a child of the copy has accrued
MaxTime == 1

\* lines 260-268: for each child of this that is tested, the child of this
\* accrueTimes is invoked on; the argument is the child of the copy of the same
\* name as the child it is invoked on
AccrueReceiver == [update |-> "insert", delete |-> "update", insert |-> "insert"]

\* NewMerge and Copy (lines 31-59): this and its copy have the same children;
\* the children of the copy have accrued some time
InitAccrue ==
  /\ ExecInit
  /\ op = "Merge"
  /\ isActive
  /\ ~readonly
  /\ ISIdle
  /\ IdleButAccrue
  /\ acPc = "base"
  /\ acCalls = <<>>
  /\ chTime = [c \in Children |-> 0]
  /\ copyTime \in [Children -> 0..MaxTime]
  /\ \A c \in Children : ~present[c] => copyTime[c] = 0

\* lines 256-259: baseAccrueTimes(this, o) decides whether there is anything to
\* do
AcBase ==
  /\ acPc = "base"
  /\ \E baseDone \in BOOLEAN : acPc' = IF baseDone THEN "skipped" ELSE "update"
  /\ UNCHANGED <<acCalls, chTime, copyTime, exceptAccrue>>

\* one "if this.<tested> != nil { this.<r>.accrueTimes(copy.<r>) }": invoking a
\* method on a child that is nil is a run-time panic
AcStep(tested, next) ==
  LET r == AccrueReceiver[tested]
  IN IF ~present[tested]
       THEN /\ acPc' = next
            /\ UNCHANGED <<acCalls, chTime>>
       ELSE IF ~present[r]
         THEN /\ acPc' = "panic"
              /\ UNCHANGED <<acCalls, chTime>>
         ELSE /\ acCalls' = Append(acCalls, <<r, r>>)
              /\ chTime' = [chTime EXCEPT ![r] = @ + copyTime[r]]
              /\ acPc' = next

\* lines 260-262
AcUpdate ==
  /\ acPc = "update"
  /\ AcStep("update", "delete")
  /\ UNCHANGED <<copyTime, exceptAccrue>>

\* lines 263-265
AcDelete ==
  /\ acPc = "delete"
  /\ AcStep("delete", "insert")
  /\ UNCHANGED <<copyTime, exceptAccrue>>

\* lines 266-268
AcInsert ==
  /\ acPc = "insert"
  /\ AcStep("insert", "done")
  /\ UNCHANGED <<copyTime, exceptAccrue>>

NextAccrue ==
  \/ AcBase
  \/ AcUpdate
  \/ AcDelete
  \/ AcInsert

SpecAccrue == InitAccrue /\ [][NextAccrue]_vars

\* ================================== Part VIII: VisitMerge, the plan
\* A plan operator is a record: its name, its key expression ("nil" when it has
\* none) and its child operators.
Op(name) == [op |-> name, key |-> "nil", kids |-> <<>>]

\* plan.NewSequence(ops...)
NewSequence(ops) == [op |-> "Sequence", key |-> "nil", kids |-> ops]

\* plan.NewParallel(child, maxParallelism)
NewParallel(child) == [op |-> "Parallel", key |-> "nil", kids |-> <<child>>]

\* line 414: plan.NewMerge(keyspace, ksref, mergeKey, update, delete, insert, ...)
NewMerge(key, update, delete, insert) ==
  [op |-> "Merge", key |-> key, kids |-> <<update, delete, insert>>]

\* lines 378-379: plan.NewSendInsert(keyspace, ksref, keyExpr, ...)
NewSendInsert(key) == [op |-> "SendInsert", key |-> key, kids |-> <<>>]

\* addSubchildrenParallel(): the Parallel around the sequence of the
\* subChildren; the builder then starts a new, empty subChildren
addSubchildrenParallel(sub) == NewParallel(NewSequence(sub))

\* buildDMLProject(returning, subChildren): the projection of the RETURNING
\* clause is appended
buildDMLProject(sub) == Append(sub, Op("Project"))

\* the MERGE statements: ON KEY or ON-clause, at least one action, each with or
\* without WHERE, with or without RETURNING and LIMIT
Stmts ==
  {s \in [isOnKey : BOOLEAN, update : BOOLEAN, updWhere : BOOLEAN,
          set : BOOLEAN, unset : BOOLEAN, delete : BOOLEAN,
          delWhere : BOOLEAN, insert : BOOLEAN, insWhere : BOOLEAN,
          returning : BOOLEAN, limit : BOOLEAN] :
      /\ s.update \/ s.delete \/ s.insert
      /\ ~s.update => (~s.updWhere /\ ~s.set /\ ~s.unset)
      /\ ~s.delete => ~s.delWhere
      /\ ~s.insert => ~s.insWhere}

\* the source terms of a MERGE: source.SubqueryTerm(), source.ExpressionTerm(),
\* source.From(), or none of them
SourceTerms == {"subquery", "expression", "from", "none"}

\* lines 204-207: the join operators buildAnsiJoin returns
JoinKinds == {"NLJoin", "Join", "HashJoin"}

InitPlan ==
  /\ PartIIIOnly
  /\ IdleButPlan
  /\ vpStmt \in Stmts
  /\ vpPc = "source"
  /\ vpChildren = <<>>
  /\ vpSub = <<>>
  /\ vpActs = [c \in Children |-> NilOp]
  /\ vpRet = [plan |-> NilOp, err |-> "none"]

\* return nil, err
VPFail(err) ==
  /\ vpRet' = [plan |-> NilOp, err |-> err]
  /\ vpPc' = "returned"

\* lines 98-161: children and subChildren start empty; the ON-clause is
\* processed when the merge is neither ON KEY nor outer; the source term plans
\* itself into children and subChildren. An error of the source is ignored
\* under the index advisor.
VPSource ==
  /\ vpPc = "source"
  /\ \E predErr \in BOOLEAN, source \in SourceTerms, acceptErr \in BOOLEAN,
        indexAdvisor \in BOOLEAN, withSub \in BOOLEAN :
       LET outer == vpStmt.insert
       IN IF ~vpStmt.isOnKey /\ ~outer /\ predErr
            THEN /\ VPFail("predicate")
                 /\ vpChildren' = <<>>
                 /\ vpSub' = <<>>
          ELSE IF source = "none"
            THEN /\ VPFail("plan_internal")
                 /\ vpChildren' = <<>>
                 /\ vpSub' = <<>>
          ELSE IF acceptErr /\ ~indexAdvisor
            THEN /\ VPFail("source")
                 /\ vpChildren' = <<>>
                 /\ vpSub' = <<>>
          ELSE /\ vpChildren' = IF acceptErr THEN <<>> ELSE <<Op(source)>>
               /\ vpSub' = IF withSub /\ ~acceptErr THEN <<Op("Fetch")>>
                           ELSE <<>>
               /\ vpPc' = "keyspace"
               /\ UNCHANGED vpRet
  /\ UNCHANGED <<vpStmt, vpActs, exceptPlan>>

\* lines 163-170: keyspace, err := this.getNameKeyspace(ksref, false)
VPKeyspace ==
  /\ vpPc = "keyspace"
  /\ \E err \in BOOLEAN :
       IF err THEN VPFail("keyspace")
       ELSE /\ vpPc' = "join"
            /\ UNCHANGED vpRet
  /\ UNCHANGED <<vpStmt, vpChildren, vpSub, vpActs, exceptPlan>>

\* lines 187-220: ON KEY adds no operator; otherwise the ANSI join on the
\* ON-clause is built: a nested-loop join goes to subChildren, a lookup or hash
\* join to children, after the subChildren there are
VPJoin ==
  /\ vpPc = "join"
  /\ IF vpStmt.isOnKey
       THEN /\ vpPc' = "actions"
            /\ UNCHANGED <<vpChildren, vpSub, vpRet>>
       ELSE \E err \in BOOLEAN, join \in JoinKinds :
              IF err
                THEN /\ VPFail("join")
                     /\ UNCHANGED <<vpChildren, vpSub>>
              ELSE IF join = "NLJoin"
                THEN /\ vpSub' = Append(vpSub, Op(join))
                     /\ vpPc' = "actions"
                     /\ UNCHANGED <<vpChildren, vpRet>>
              ELSE /\ vpChildren' =
                        Append(IF Len(vpSub) > 0
                                 THEN Append(vpChildren,
                                             addSubchildrenParallel(vpSub))
                                 ELSE vpChildren,
                               Op(join))
                   /\ vpSub' = <<>>
                   /\ vpPc' = "actions"
                   /\ UNCHANGED vpRet
  /\ UNCHANGED <<vpStmt, vpActs, exceptPlan>>

\* an operator that is there only under a condition
Opt(cond, o) == IF cond THEN <<o>> ELSE <<>>

\* lines 366-371: the key of the INSERT action
InsertKey(isOnKey) == IF isOnKey THEN "on" ELSE "actKey"

\* lines 249-386: the sequence of each action the statement has
VPActions ==
  /\ vpPc = "actions"
  /\ vpActs' =
       [update |->
          IF vpStmt.update
            THEN NewSequence(Opt(vpStmt.updWhere, Op("Filter"))
                               \o <<Op("Clone")>>
                               \o Opt(vpStmt.set, Op("Set"))
                               \o Opt(vpStmt.unset, Op("Unset"))
                               \o <<Op("SendUpdate")>>)
            ELSE NilOp,
        delete |->
          IF vpStmt.delete
            THEN NewSequence(Opt(vpStmt.delWhere, Op("Filter"))
                               \o <<Op("SendDelete")>>)
            ELSE NilOp,
        insert |->
          IF vpStmt.insert
            THEN NewSequence(Opt(vpStmt.insWhere, Op("Filter"))
                               \o <<NewSendInsert(InsertKey(vpStmt.isOnKey))>>)
            ELSE NilOp]
  /\ vpPc' = "merge"
  /\ UNCHANGED <<vpStmt, vpChildren, vpSub, vpRet, exceptPlan>>

\* lines 410-413: mergeKey is stmt.On() for an ON KEY merge and stays nil
\* otherwise
MergeKey(isOnKey) == IF isOnKey THEN "on" ELSE "nil"

\* lines 410-415: the Merge node goes to subChildren
VPMerge ==
  /\ vpPc = "merge"
  /\ vpSub' = Append(vpSub, NewMerge(MergeKey(vpStmt.isOnKey), vpActs["update"],
                                     vpActs["delete"], vpActs["insert"]))
  /\ vpPc' = "returning"
  /\ UNCHANGED <<vpStmt, vpChildren, vpActs, vpRet, exceptPlan>>

\* lines 417-421: the RETURNING projection, then the subChildren go to children
\* inside a Parallel
VPReturning ==
  /\ vpPc = "returning"
  /\ LET sub == IF vpStmt.returning THEN buildDMLProject(vpSub) ELSE vpSub
     IN vpChildren' = Append(vpChildren, addSubchildrenParallel(sub))
  /\ vpSub' = <<>>
  /\ vpPc' = "limit"
  /\ UNCHANGED <<vpStmt, vpActs, vpRet, exceptPlan>>

\* lines 423-433: the Limit of a statement with LIMIT
VPLimit ==
  /\ vpPc = "limit"
  /\ vpChildren' = vpChildren \o Opt(vpStmt.limit, Op("Limit"))
  /\ vpPc' = "discard"
  /\ UNCHANGED <<vpStmt, vpSub, vpActs, vpRet, exceptPlan>>

DiscardAlways(returning) == TRUE

\* line 435: if stmt.Returning() == nil
DiscardNeeded(returning) == ~returning

\* lines 435-439: the Discard, and the Sequence of the children is returned
VPDiscard ==
  /\ vpPc = "discard"
  /\ vpChildren' = vpChildren
                     \o Opt(DiscardNeeded(vpStmt.returning), Op("Discard"))
  /\ vpRet' = [plan |-> NewSequence(vpChildren'), err |-> "none"]
  /\ vpPc' = "returned"
  /\ UNCHANGED <<vpStmt, vpSub, vpActs, exceptPlan>>

NextPlan ==
  \/ VPSource
  \/ VPKeyspace
  \/ VPJoin
  \/ VPActions
  \/ VPMerge
  \/ VPReturning
  \/ VPLimit
  \/ VPDiscard

SpecPlan == InitPlan /\ [][NextPlan]_vars

\* ================================================================ claims
SentTo(row, c) == \E i \in DOMAIN sent : sent[i] = <<row, c>>

MatchedBranch == {"update", "delete"}

\* C1: MERGE routing. Every row Merge sends goes to a present child; a row whose
\* fetch returned a document goes only to update/delete, update before delete,
\* and never to insert; a row whose fetch returned nothing goes only to insert;
\* no row reaches both branches; and a row whose processMatch returned true has
\* reached every present child of its branch.
C1_MergeRouting ==
  /\ \A i \in DOMAIN sent :
       LET r == sent[i][1]
           c == sent[i][2]
       IN /\ present[c]
          /\ r.doc => c \in MatchedBranch
          /\ ~r.doc => c = "insert"
          /\ (c = "delete" /\ present["update"]) =>
                \E j \in 1..(i - 1) : sent[j] = <<r, "update">>
          /\ \A j \in DOMAIN sent :
                /\ (j # i => sent[j] # sent[i])
                /\ (sent[j][1].id = r.id =>
                      ((sent[j][2] = "insert") <=> (c = "insert")))
  /\ (op = "Merge" /\ pc = "poll" /\ ok /\ cur.key = "string") =>
       \A c \in Children :
          (present[c] /\ (IF cur.doc THEN c \in MatchedBranch ELSE c = "insert"))
             => SentTo(cur, c)

C1_Witness ==
  /\ Len(sent) = 3
  /\ sent[1][2] = "update" /\ sent[2][2] = "delete" /\ sent[3][2] = "insert"
  /\ sent[1][1] = sent[2][1] /\ sent[1][1].doc
  /\ ~sent[3][1].doc
  /\ pc = "poll" /\ ok

\* C2: once semantics. However many times RunOnce is invoked, the body runs at
\* most once: the input and each child are started at most once, the item
\* channel is closed at most once and the parent is notified at most once.
C2_OnceSemantics ==
  /\ bodyRuns <= 1
  /\ inputStarted <= 1
  /\ \A c \in Children : chStarted[c] <= 1
  /\ outClosed <= 1
  /\ parentNotified <= 1
  /\ addCalls <= 1

C2_Witness ==
  /\ op = "Merge"
  /\ ncalls >= 2
  /\ pc = "done"
  /\ inputStarted = 1
  /\ \A c \in Children : chStarted[c] = 1
  /\ outClosed = 1
  /\ parentNotified = 1

\* C3: no output after stop. Once Merge has received the stop sent on its stop
\* channel, no step sends an item to a child.
C3_NoSendAfterStop == [][stopRecv => sent' = sent]_vars

\* the stop arrived inside mergeSendItem, between the send to update and the
\* send to delete of a matched row
C3_Witness ==
  /\ stopRecv
  /\ ~ok
  /\ pc = "done"
  /\ present["update"] /\ present["delete"]
  /\ cur.doc
  /\ SentTo(cur, "update")
  /\ ~SentTo(cur, "delete")

\* C4: stop propagation and exit. When SendStop has returned, the Merge and
\* every present child have been sent a stop; and once the Merge has received
\* the stop its body eventually ends, with every child input channel closed,
\* every child notification collected and its own teardown run.
C4_StopLeadsToExit ==
  /\ [](stopPc = "done" =>
          (stopRecv /\ \A c \in Children : present[c] => chStopped[c]))
  /\ (stopRecv ~>
        (/\ pc = "done"
         /\ nWait = 0
         /\ childChannel = 0
         /\ \A c \in Children : present[c] => (chClosed[c] /\ chNotified[c])))

\* the stop was received while the Merge was sending to a child
C4_Witness ==
  /\ stopRecv
  /\ ~ok
  /\ stopPc = "done"
  /\ pc = "done"
  /\ \A c \in Children : present[c] /\ chClosed[c] /\ chNotified[c]

\* C9: output closed on every exit. Whenever the RunOnce body of Merge or of
\* CreateFunction has ended, the operator has closed its output item channel
\* and notified its parent exactly once.
C9_OutputClosedOnExit ==
  (bodyRuns > 0 /\ pc = "done") => (outClosed = 1 /\ parentNotified = 1)

\* C10: MERGE type error is row-local. After a row whose key is not a string,
\* an invalid-value error is recorded, the row has been sent to no child, and
\* Merge goes on with its loop (ok stays true).
C10_TypeErrorRowLocal ==
  (op = "Merge" /\ cur.key = "nonstring") =>
     /\ <<cur.id, "invalid_value">> \in errors
     /\ \A c \in Children : ~SentTo(cur, c)
     /\ ok

\* --------------------------------------------- claims, Part I continued
\* the body of the Merge is past its wait loop (line 144 and the deferred calls)
AfterBody == {"deferPut", "deferNotify", "deferClose", "done"}

\* C11: datastore error classification. Every error the fetch returned is in the
\* context's error sink; after a fatal error the row has been sent to no child
\* and Merge takes no further row from its input; after errors that are all
\* non-fatal Merge has not stopped: unless a stop arrives it stays in its loop.
C11_ErrorClassification ==
  /\ [](op = "Merge" =>
          /\ cur.errs # "none" => <<cur.id, cur.errs>> \in errors
          /\ cur.errs = "fatal" => (~ok /\ \A c \in Children : ~SentTo(cur, c))
          /\ (cur.errs = "nonfatal" /\ ~stopRecv) =>
                (ok /\ pc \notin ({"closeInputs", "wait"} \cup AfterBody)))
  /\ [][cur.errs = "fatal" => (cur' = cur /\ inChan' >= inChan)]_vars

\* a row with a non-fatal error was followed by the next row, whose fetch had a
\* fatal error, and the Merge has ended
C11_Witness ==
  /\ <<1, "nonfatal">> \in errors
  /\ cur.id = 2
  /\ cur.errs = "fatal"
  /\ \E c \in Children : SentTo([cur EXCEPT !.id = 1, !.errs = "nonfatal"], c)
  /\ pc = "done"

\* C12: private channels. The input channel has one producer, every child input
\* channel one consumer, and at most one running task has the item channel of
\* the Merge as its output.
C12_PrivateChannels ==
  op = "Merge" =>
     /\ inputStarted <= 1
     /\ \A c \in Children : chStarted[c] <= 1
     /\ Cardinality(OutputSenders) <= 1

\* the Merge saw the end of its input (line 118 with ok = false)
SawEOF == op = "Merge" /\ inputStarted > 0 /\ cur = NoRow /\ ~ok

\* notifications the wait loop has taken from childChannel
NotificationsTaken == Cardinality({c \in Children : chNotified[c]}) - childChannel

\* C17 as stated: after EOF on its input the body of the Merge finishes only
\* after three child notifications.
C17_WaitsForThree ==
  (SawEOF /\ pc \in AfterBody) => NotificationsTaken = 3

\* C17 as amended: after EOF on its input the Merge closes the input channel of
\* each present child, and its body finishes only after one notification from
\* each present child.
C17_WaitsForPresentChildren ==
  SawEOF =>
     /\ pc \in ({"wait"} \cup AfterBody) =>
          \A c \in Children : present[c] => chClosed[c]
     /\ pc \in AfterBody =>
          /\ NotificationsTaken = NumChildren
          /\ \A c \in Children : present[c] => chNotified[c]

\* EOF with two children, no stop
C17_Witness ==
  /\ SawEOF
  /\ ~stopRecv /\ stopPc = "idle"
  /\ pc = "deferPut"
  /\ NumChildren = 2
  /\ produced = MaxRows

\* the wait loop of the body is over
Waited == inputStarted > 0 /\ pc \in AfterBody /\ nWait = 0

FetchOrSend == {"match", "sendPoll", "sendSelect"}

\* C26: readonly contexts cause no mutation. When context.Readonly() is true,
\* the Merge starts neither its input nor any child and fetches and sends
\* nothing, and CreateFunction never calls AddFunction; and when the body of
\* either has ended, it has closed its output and notified its parent.
C26_ReadonlyNoMutation ==
  readonly =>
     /\ inputStarted = 0
     /\ \A c \in Children : chStarted[c] = 0
     /\ pc \notin FetchOrSend
     /\ sent = <<>>
     /\ addCalls = 0
     /\ (bodyRuns > 0 /\ pc = "done") => (outClosed = 1 /\ parentNotified = 1)

\* ------------------------------------------------------ claims, Part II
RECURSIVE LeafIdsRange(_, _, _)
LeafIdsRange(scans, lo, hi) ==
  IF lo > hi THEN <<>>
  ELSE IF lo = hi
    THEN IF scans[lo].kind = "intersect"
           THEN LeafIdsRange(scans[lo].scans, 1, Len(scans[lo].scans))
           ELSE <<scans[lo].id>>
    ELSE LET mid == (lo + hi) \div 2
         IN LeafIdsRange(scans, lo, mid) \o LeafIdsRange(scans, mid + 1, hi)

\* the ids of the leaves of a list of scans, left to right
LeafIds(scans) == LeafIdsRange(scans, 1, Len(scans))

Ids(scans) == [i \in DOMAIN scans |-> scans[i].id]

RECURSIVE NoLimitBelow(_)
\* no scan below the node has a limit or an offset
NoLimitBelow(node) ==
  \A i \in DOMAIN node.scans :
     /\ node.scans[i].limit = "nil"
     /\ node.scans[i].offset = "nil"
     /\ NoLimitBelow(node.scans[i])

Returned == stack = <<>> /\ result # NoNode

\* C5: NewIntersectScan terminates: every invocation returns a node, also when
\* the flattened arity of its scans exceeds 64.
C5_Terminates == (stack # <<>>) ~> Returned

\* C6: arity cap. A construction whose flattened arity n exceeds 64 returns a
\* root with exactly 2 children, both IntersectScans, the first over the first
\* floor(n/2) leaves and the second over the rest, in order; and no node that
\* NewIntersectScan returns has more than 64 direct children.
C6_ArityCap ==
  /\ [](Len(lastRet.node.scans) <= ArityCap)
  /\ (stack # <<>> /\ Len(LeafIds(callArgs)) > ArityCap) ~>
       (/\ Returned
        /\ Len(result.scans) = 2
        /\ result.scans[1].kind = "intersect"
        /\ result.scans[2].kind = "intersect"
        /\ LET ids == LeafIds(callArgs)
               n == Len(ids)
           IN /\ Ids(result.scans[1].scans) = SubSeq(ids, 1, n \div 2)
              /\ Ids(result.scans[2].scans) = SubSeq(ids, n \div 2 + 1, n))

C8_LimitScrubbing ==
  /\ lastRet.node # NoNode =>
       (NoLimitBelow(lastRet.node) /\ lastRet.node.limit = lastRet.limit)
  /\ Returned => (NoLimitBelow(result) /\ result.limit = callLimit)

\* a limit on the call, on a nested IntersectScan and on a leaf beside it
C8_Witness ==
  /\ Returned
  /\ callLimit = "expr"
  /\ Len(result.scans) >= 3
  /\ \E i \in DOMAIN callArgs :
        /\ callArgs[i].kind = "intersect"
        /\ callArgs[i].limit = "expr"
        /\ Len(callArgs[i].scans) >= 2
  /\ \E j \in DOMAIN callArgs :
        /\ callArgs[j].kind = "leaf"
        /\ callArgs[j].limit = "expr"
        /\ callArgs[j].offset = "expr"

\* the invocations that line 45 or line 46 made and that have not returned
InnerFrames == {i \in DOMAIN stack : i > 1}

\* C23: sentinel short-circuit in the arity split. When NewIntersectScan splits
\* more than 64 scans and the cost it was handed is the NOT_AVAIL sentinel, the
\* cost handed to each of the two inner invocations is still the sentinel.
C23_SentinelKept ==
  (stack # <<>> /\ stack[1].cost = OPT_COST_NOT_AVAIL) =>
     \A i \in InnerFrames : stack[i].cost = OPT_COST_NOT_AVAIL

\* ----------------------------------------------------- claims, Part III
\* C13 as stated: MERGE cardinality clamp. Whenever useCBO is on, joinCard is at
\* most leftCard once the clamp step has run, whatever the two values were, the
\* sentinels included.
C13_ClampAlways ==
  (useCBO /\ vmPc \in {"derive", "done"}) => joinCard <= leftCard

\* C13 as amended: whenever useCBO is on and leftCard is available (> 0),
\* joinCard is at most leftCard once the clamp step has run.
C13_ClampWhenAvailable ==
  (useCBO /\ vmPc \in {"derive", "done"} /\ leftCard > 0) => joinCard <= leftCard

\* the join estimate was larger than leftCard and has been clamped
C13_Witness ==
  /\ useCBO
  /\ vmPc = "derive"
  /\ leftCard > 0
  /\ joinEst > leftCard
  /\ joinCard = leftCard

\* max(1, leftCard - joinCard)
AtLeastOne(card) == IF card < One THEN One ELSE card

\* C22: MERGE match/non-match cardinalities. When useCBO is on and leftCard and
\* joinCard are both available (> 0), VisitMerge derives matchCard = joinCard
\* and nonMatchCard = max(1, leftCard - joinCard), and neither is negative.
C22_MatchCards ==
  (vmPc = "done" /\ useCBO /\ leftCard > 0 /\ joinCard > 0) =>
     /\ matchCard = joinCard
     /\ nonMatchCard = AtLeastOne(leftCard - joinCard)
     /\ matchCard >= 0
     /\ nonMatchCard >= 0

\* ------------------------------------------------------ claims, Part IV
\* C14: PREPARE. When VisitPrepare succeeds, the plan built for the statement is
\* in the prepared cache and the Prepare node returned holds the JSON encoding
\* of that same plan; when building the plan fails, VisitPrepare returns the
\* error and no node, and the cache is as it was when VisitPrepare was called.
C14_Prepare ==
  prepPc = "returned" =>
     /\ prepRet.err = "none" =>
          /\ prepPlan \in PlansOf(prepStmt)
          /\ prepPlan \in prepCache
          /\ prepRet.node.kind = "Prepare"
          /\ prepRet.node.prepared.actual = MarshalJSON(prepPlan)
     /\ prepPlan = NoPlan =>
          /\ prepRet.err = "build"
          /\ prepRet.node = NoPrepare
          /\ prepCache = prepCache0

\* a second PREPARE whose build failed after a first one that succeeded
C14_Witness ==
  /\ prepPc = "returned"
  /\ prepCalls = 2
  /\ prepRet.err = "build"
  /\ prepCache # {}

\* C25: VisitPrepare leaves the prepared cache unchanged whenever it returns an
\* error: when building fails, and when marshalling the plan to JSON fails, the
\* cache is as it was when VisitPrepare was called and holds no entry for the
\* plan of this call.
C25_CacheUnchangedOnError ==
  (prepPc = "returned" /\ prepRet.err # "none") =>
     /\ prepRet.node = NoPrepare
     /\ prepCache = prepCache0
     /\ (prepPlan \in prepCache => prepPlan \in prepCache0)

\* ------------------------------------------------------- claims, Part V
\* lines 60-62: Values()
Values == NewValue(values)

\* C15: Collect. After processItem has been called on k items, Values() is the
\* array of the actual values of exactly those k items in arrival order; the
\* capacity starts at 64 and changes only by doubling when the buffer is full;
\* processItem has always returned true.
C15_Collect ==
  /\ [](colPattern # "none" =>
          /\ Values.kind = "value"
          /\ Values.actual = [i \in 1..Len(arrived) |-> arrived[i].actual]
          /\ Len(values) <= capacity
          /\ (arrived = <<>> => capacity = 64)
          /\ colRet \subseteq {TRUE})
  /\ [][capacity' # capacity =>
          (Len(values) = capacity /\ capacity' = 2 * capacity)]_vars

\* the buffer has grown twice
C15_Witness ==
  /\ colPattern = "distinct"
  /\ Len(values) = 129
  /\ capacity = 256
  /\ colRet = {TRUE}

\* ------------------------------------------------------ claims, Part VI
\* the NUMBER values among what the operand evaluated to
Numbers == SelectSeq(sdSeen, LAMBDA v : v.type = "number")

C19_AccrueOneToOne ==
  /\ acPc # "panic"
  /\ \A i \in DOMAIN acCalls :
        /\ acCalls[i][1] = acCalls[i][2]
        /\ present[acCalls[i][1]]
  /\ acPc = "done" =>
        /\ Len(acCalls) = NumChildren
        /\ \A c \in Children :
              /\ present[c] => \E i \in DOMAIN acCalls : acCalls[i][1] = c
              /\ chTime[c] = copyTime[c]

\* ---------------------------------------------------- claims, Part VIII
RECURSIVE NodesOf(_)
\* the operators of a plan: the operator and all operators below it
NodesOf(node) ==
  {node} \cup UNION {NodesOf(node.kids[i]) : i \in DOMAIN node.kids}

\* VisitMerge returned a plan
Planned == vpPc = "returned" /\ vpRet.err = "none"

\* C21: every Merge plan node that VisitMerge produces carries a key expression
\* that is not nil, for ON KEY merges and for merges planned through an ANSI
\* join on the ON-clause.
C21_MergeKeyNotNil ==
  Planned =>
     /\ \E n \in NodesOf(vpRet.plan) : n.op = "Merge"
     /\ \A n \in NodesOf(vpRet.plan) : n.op = "Merge" => n.key # "nil"

\* the last operators of the returned Sequence
LastOps(seq, k) == SubSeq(seq, Len(seq) - k + 1, Len(seq))

OpNames(seq) == [i \in DOMAIN seq |-> seq[i].op]

\* the operators of the Parallel that holds the Merge
MergeGroup(par) == OpNames(par.kids[1].kids)

\* C24 as stated: for every MERGE statement the returned Sequence ends with a
\* Limit (when the statement has a LIMIT) followed by a Discard, after the
\* Merge and the optional Returning projection.
C24_LimitThenDiscard ==
  Planned =>
     LET ops == vpRet.plan.kids
         tail == Opt(vpStmt.limit, "Limit") \o <<"Discard">>
     IN /\ vpRet.plan.op = "Sequence"
        /\ Len(ops) > Len(tail)
        /\ OpNames(LastOps(ops, Len(tail))) = tail

\* C24 as amended: the returned Sequence ends with a Limit (when the statement
\* has a LIMIT) followed by a Discard when the statement has no RETURNING
\* clause, and by nothing when it has one; right before them comes the Parallel
\* that holds the Merge, with the Returning projection after the Merge when the
\* statement has a RETURNING clause.
C24_LimitThenDiscardUnlessReturning ==
  Planned =>
     LET ops == vpRet.plan.kids
         tail == Opt(vpStmt.limit, "Limit") \o Opt(~vpStmt.returning, "Discard")
         group == <<"Merge">> \o Opt(vpStmt.returning, "Project")
     IN /\ vpRet.plan.op = "Sequence"
        /\ Len(ops) > Len(tail)
        /\ OpNames(LastOps(ops, Len(tail))) = tail
        /\ ops[Len(ops) - Len(tail)].op = "Parallel"
        /\ LET inPar == MergeGroup(ops[Len(ops) - Len(tail)])
           IN /\ Len(inPar) >= Len(group)
              /\ LastOps(inPar, Len(group)) = group
        /\ \A i \in 1..(Len(ops) - Len(tail)) : ops[i].op \notin {"Limit", "Discard"}

\* an ON-clause merge with RETURNING and LIMIT, planned through a hash or lookup
\* join: the plan ends with the Limit
C24_Witness ==
  /\ Planned
  /\ ~vpStmt.isOnKey
  /\ vpStmt.limit
  /\ vpStmt.returning
  /\ vpStmt.update /\ vpStmt.insert
  /\ Len(vpRet.plan.kids) >= 4
  /\ vpRet.plan.kids[Len(vpRet.plan.kids)].op = "Limit"
  /\ vpRet.plan.kids[Len(vpRet.plan.kids) - 1].op = "Parallel"

====
